---- MODULE Spec2Model ----
(***************************************************************************)
(* DesfireNFC: ISO 7816-4 wrapped DESFire transport over an abstract NFC   *)
(* reader.  The model follows src/src/DesfireNFC.cpp and                   *)
(* src/src/ISO7816APDU.cpp.  Bytes are naturals 0..255, buffers are        *)
(* sequences; C index i of a buffer is element i + 1 of the sequence.      *)
(***************************************************************************)
EXTENDS Integers, Sequences, FiniteSets, TLC

VARIABLES
    uid,            \* DesfireNFC::_uid[10]
    uidLength,      \* DesfireNFC::_uidLength
    cardDetected,   \* DesfireNFC::_cardDetected
    sessionKey,     \* DesfireNFC::_sessionKey[24]
    authenticated,  \* DesfireNFC::_authenticated
    cryptoMode,     \* DesfireNFC::_cryptoMode
    pc,             \* "idle": no call in flight; "returned": the last call has
                    \* returned to its caller; "crashed": the last call did not return
    call            \* the last call: operation, arguments, reader traffic, result

vars == <<uid, uidLength, cardDetected, sessionKey, authenticated, cryptoMode, pc, call>>

session == <<uid, uidLength, cardDetected, sessionKey, authenticated, cryptoMode>>

---------------------------------------------------------------------------
(* DesfireStatus (include/DesfireStatus.h) *)

DFST_SUCCESS == 0
DFST_MORE_FRAMES == 175
DFST_NO_CHANGES == 12
DFST_OUT_OF_EEPROM == 14
DFST_ILLEGAL_COMMAND == 28
DFST_INTEGRITY_ERROR == 30
DFST_PARAMETER_ERROR == 31
DFST_NO_SUCH_KEY == 64
DFST_LENGTH_ERROR == 126
DFST_PERMISSION_DENIED == 157
DFST_APPLICATION_NOT_FOUND == 160
DFST_APPLICATION_INTEGRITY_ERROR == 161
DFST_AUTHENTICATION_ERROR == 174
DFST_BOUNDARY_ERROR == 190
DFST_PICC_INTEGRITY_ERROR == 193
DFST_COMMAND_ABORTED == 202
DFST_CARD_INTEGRITY_ERROR == 205
DFST_DUPLICATE_ERROR == 222
DFST_EEPROM_ERROR == 238
DFST_FILE_NOT_FOUND == 240
DFST_FILE_INTEGRITY_ERROR == 241
DFST_LIBRARY_ERROR == 255
DFST_COMMUNICATION_ERROR == 254
DFST_PARAMETER_NULL == 253
DFST_BUFFER_OVERFLOW == 251
DFST_ISO_FILE_NOT_FOUND == 27266
DFST_ISO_WRONG_LENGTH == 26368
DFST_ISO_WRONG_PARAMS == 27270
DFST_ISO_UNKNOWN_INSTRUCTION == 27904
DFST_ISO_SECURITY_STATUS_ERROR == 27010
DFST_ISO_AUTHENTICATION_BLOCKED == 27011
DFST_ISO_DATA_INVALID == 27012
DFST_ISO_CONDITION_NOT_SATISFIED == 27013
DFST_ISO_WRONG_LE == 27648
DFST_ISO_WRONG_CLA == 28160

(* ISO7816StatusWord, ISO7816Class, ISO7816Instruction, ISO7816Constants
   (include/ISO7816Constants.h) *)

ISO_SW_SUCCESS == 36864
ISO_SW_SUCCESS_DESFIRE == 37120
ISO_SW_WRONG_LENGTH == 26368
ISO_SW_WRONG_LE == 27648
ISO_SW_SECURITY_NOT_SATISFIED == 27010
ISO_SW_AUTH_METHOD_BLOCKED == 27011
ISO_SW_DATA_INVALID == 27012
ISO_SW_CONDITIONS_NOT_SATISFIED == 27013
ISO_SW_FILE_NOT_FOUND == 27266
ISO_SW_WRONG_P1P2 == 27270
ISO_SW_INS_NOT_SUPPORTED == 27904
ISO_SW_CLASS_NOT_SUPPORTED == 28160

ISO_CLA_DESFIRE == 144
ISO_INS_DESFIRE_NATIVE == 0
ISO_MAX_APDU_SIZE == 261
ISO_MAX_DATA_SIZE == 255
ISO_STATUS_LENGTH == 2

(* DesfireCommand, DesfreCryptoMode (include/DesfireTypes.h) *)

DF_CMD_GET_VERSION == 96
DF_CMD_GET_ADDITIONAL_FRAME == 175
DF_CMD_SELECT_APPLICATION == 90
DF_CMD_AUTHENTICATE == 10

DF_CRYPTO_DES == 0
DF_CRYPTO_3K3DES == 1
DF_CRYPTO_AES == 2

(* sizes of the instance's and the callers' buffers *)

UidSize == 10           \* uint8_t _uid[10]
SessionKeySize == 24    \* uint8_t _sessionKey[24]
ResponseCap == 32       \* uint8_t response[32] in every caller of transmit
AidSize == 3            \* selectApplication passes dataLen 3
DesfireUidLength == 7   \* "DESFire cards have 7-byte UIDs"

---------------------------------------------------------------------------
(* helpers on buffers *)

Min(a, b) == IF a < b THEN a ELSE b

Zeros(n) == [i \in 1..n |-> 0]

\* A byte that was never written, or that lies outside its buffer: its value
\* is indeterminate, and equal to no byte a reader delivered.
Garbage == 256

\* buf[i] in C, for a buffer of which Len(buf) leading bytes are defined
At(buf, i) == IF i >= 0 /\ i < Len(buf) THEN buf[i + 1] ELSE Garbage

\* memcpy(dst, src + off, n): the first n bytes of dst are replaced
Memcpy(dst, src, off, n) ==
    [i \in 1..Len(dst) |-> IF i <= n THEN At(src, off + i - 1) ELSE dst[i]]

---------------------------------------------------------------------------
(* ISO7816APDU (src/ISO7816APDU.cpp) *)

\* a convertStatus for which the unmapped words of the 0x91 page are successes
ConvertStatusSw1(status) ==
    IF status \div 256 = 145 THEN DFST_SUCCESS ELSE DFST_LIBRARY_ERROR

\* ISO7816APDU::convertStatus
ConvertStatus(status) ==
    CASE status = ISO_SW_SUCCESS -> DFST_SUCCESS
      [] status = ISO_SW_SUCCESS_DESFIRE -> DFST_SUCCESS
      [] status = 37295 -> DFST_MORE_FRAMES                  \* 0x91AF
      [] status = 37294 -> DFST_AUTHENTICATION_ERROR         \* 0x91AE
      [] status = 37360 -> DFST_FILE_NOT_FOUND               \* 0x91F0
      [] status = 37132 -> DFST_NO_CHANGES                   \* 0x910C
      [] status = 37134 -> DFST_OUT_OF_EEPROM                \* 0x910E
      [] status = 37148 -> DFST_ILLEGAL_COMMAND              \* 0x911C
      [] status = 37150 -> DFST_INTEGRITY_ERROR              \* 0x911E
      [] status = 37151 -> DFST_PARAMETER_ERROR              \* 0x911F
      [] status = 37184 -> DFST_NO_SUCH_KEY                  \* 0x9140
      [] status = 37246 -> DFST_LENGTH_ERROR                 \* 0x917E
      [] status = 37277 -> DFST_PERMISSION_DENIED            \* 0x919D
      [] status = 37280 -> DFST_APPLICATION_NOT_FOUND        \* 0x91A0
      [] status = 37281 -> DFST_APPLICATION_INTEGRITY_ERROR  \* 0x91A1
      [] status = 37310 -> DFST_BOUNDARY_ERROR               \* 0x91BE
      [] status = 37313 -> DFST_PICC_INTEGRITY_ERROR         \* 0x91C1
      [] status = 37322 -> DFST_COMMAND_ABORTED              \* 0x91CA
      [] status = 37325 -> DFST_CARD_INTEGRITY_ERROR         \* 0x91CD
      [] status = 37342 -> DFST_DUPLICATE_ERROR              \* 0x91DE
      [] status = 37358 -> DFST_EEPROM_ERROR                 \* 0x91EE
      [] status = 37361 -> DFST_FILE_INTEGRITY_ERROR         \* 0x91F1
      [] status = ISO_SW_FILE_NOT_FOUND -> DFST_ISO_FILE_NOT_FOUND
      [] status = ISO_SW_WRONG_LENGTH -> DFST_ISO_WRONG_LENGTH
      [] status = ISO_SW_WRONG_P1P2 -> DFST_ISO_WRONG_PARAMS
      [] status = ISO_SW_INS_NOT_SUPPORTED -> DFST_ISO_UNKNOWN_INSTRUCTION
      [] status = ISO_SW_SECURITY_NOT_SATISFIED -> DFST_ISO_SECURITY_STATUS_ERROR
      [] status = ISO_SW_AUTH_METHOD_BLOCKED -> DFST_ISO_AUTHENTICATION_BLOCKED
      [] status = ISO_SW_DATA_INVALID -> DFST_ISO_DATA_INVALID
      [] status = ISO_SW_CONDITIONS_NOT_SATISFIED -> DFST_ISO_CONDITION_NOT_SATISFIED
      [] status = ISO_SW_WRONG_LE -> DFST_ISO_WRONG_LE
      [] status = ISO_SW_CLASS_NOT_SUPPORTED -> DFST_ISO_WRONG_CLA
      [] OTHER -> DFST_LIBRARY_ERROR

---------------------------------------------------------------------------
(* the reader (include/NFCReaderInterface.h): what one transceive call
   delivers.  ok is the call's return value, n the response length it
   reports, the n bytes are payload bytes fill, fill + 1, ... followed, when
   n >= 2, by the two bytes of sw.  ub selects what an overrun of the
   caller's response buffer does, when the frame causes one. *)

MaxShortPayload == 14
Overrun == 1

PayloadLens ==
    (0..MaxShortPayload) \cup (ResponseCap..(ResponseCap + Overrun))

StatusWords == {36864, 37120, 37295, 37280, 27266}
    \* 0x9000, 0x9100, 0x91AF, 0x91A0, 0x6A82

PayloadFills == {17, 160}

UBOutcomes == {"intact", "clobber", "crash"}

RxFailed == [ok |-> FALSE, n |-> 0, fill |-> 0, sw |-> 0, ub |-> "intact"]

RxFrames ==
    {RxFailed}
    \cup {[ok |-> TRUE, n |-> k, fill |-> 0, sw |-> 0, ub |-> "intact"] : k \in 0..1}
    \cup {[ok |-> TRUE, n |-> l + ISO_STATUS_LENGTH, fill |-> f, sw |-> w, ub |-> "intact"] :
              l \in PayloadLens, f \in PayloadFills, w \in StatusWords}
    \cup {[ok |-> TRUE, n |-> l + ISO_STATUS_LENGTH, fill |-> f, sw |-> w, ub |-> u] :
              l \in (ResponseCap + 1)..(ResponseCap + Overrun), f \in PayloadFills,
              w \in StatusWords, u \in UBOutcomes}

\* the bytes the reader leaves in responseBuffer
RxBuffer(rx) ==
    [i \in 1..rx.n |->
        IF rx.n >= ISO_STATUS_LENGTH /\ i = rx.n - 1 THEN rx.sw \div 256
        ELSE IF rx.n >= ISO_STATUS_LENGTH /\ i = rx.n THEN rx.sw % 256
        ELSE (rx.fill + i - 1) % 256]

---------------------------------------------------------------------------
(* DesfireNFC::buildAPDU and DesfireNFC::transmit (src/DesfireNFC.cpp) *)

\* a buildAPDU that appends the Le byte whatever its value
BuildAPDUWithLe(cla, ins, p1, p2, data, dataLen, le, hasApdu) ==
    IF ~hasApdu THEN <<>>
    ELSE LET n == IF dataLen > ISO_MAX_DATA_SIZE THEN ISO_MAX_DATA_SIZE ELSE dataLen
             body == IF dataLen > 0
                     THEN <<n>> \o [i \in 1..n |-> At(data, i - 1)]
                     ELSE <<>>
         IN  <<cla, ins, p1, p2>> \o body \o <<le>>

\* DesfireNFC::buildAPDU; the result is the APDU, its length is the return
\* value (0 for a null apdu buffer)
BuildAPDU(cla, ins, p1, p2, data, dataLen, le, hasApdu) ==
    IF ~hasApdu THEN <<>>
    ELSE LET n == IF dataLen > ISO_MAX_DATA_SIZE THEN ISO_MAX_DATA_SIZE ELSE dataLen
             body == IF dataLen > 0
                     THEN <<n>> \o [i \in 1..n |-> At(data, i - 1)]
                     ELSE <<>>
             tail == IF le > 0 THEN <<le>> ELSE <<>>
         IN  <<cla, ins, p1, p2>> \o body \o tail

\* a switch that looks at SW1 alone: every 0x90xx and 0x91xx word is a success
TransmitStatusSw1(statusWord) ==
    IF statusWord \div 256 \in {144, 145} THEN DFST_SUCCESS ELSE DFST_LIBRARY_ERROR

\* the switch on the status word inside DesfireNFC::transmit
TransmitStatus(statusWord) ==
    CASE statusWord = ISO_SW_SUCCESS -> DFST_SUCCESS
      [] statusWord = ISO_SW_SUCCESS_DESFIRE -> DFST_SUCCESS
      [] statusWord = ISO_SW_WRONG_LENGTH -> DFST_ISO_WRONG_LENGTH
      [] statusWord = ISO_SW_SECURITY_NOT_SATISFIED -> DFST_ISO_SECURITY_STATUS_ERROR
      [] statusWord = ISO_SW_AUTH_METHOD_BLOCKED -> DFST_ISO_AUTHENTICATION_BLOCKED
      [] statusWord = ISO_SW_DATA_INVALID -> DFST_ISO_DATA_INVALID
      [] statusWord = ISO_SW_CONDITIONS_NOT_SATISFIED -> DFST_ISO_CONDITION_NOT_SATISFIED
      [] statusWord = ISO_SW_FILE_NOT_FOUND -> DFST_ISO_FILE_NOT_FOUND
      [] statusWord = ISO_SW_WRONG_P1P2 -> DFST_ISO_WRONG_PARAMS
      [] statusWord = ISO_SW_INS_NOT_SUPPORTED -> DFST_ISO_UNKNOWN_INSTRUCTION
      [] statusWord = ISO_SW_CLASS_NOT_SUPPORTED -> DFST_ISO_WRONG_CLA
      [] OTHER -> DFST_LIBRARY_ERROR

\* lines 298-299: the status word in the last two bytes of the response
StatusWord(rx) ==
    At(RxBuffer(rx), rx.n - 2) * 256 + At(RxBuffer(rx), rx.n - 1)

\* what a transmit call that returned before calling the reader reports
NoExchange(status, responseLen) ==
    [status |-> status, called |-> FALSE, apdu |-> <<>>, txLength |-> 0,
     rx |-> RxFailed, read |-> FALSE, statusWord |-> 0, wrote |-> FALSE,
     responseLen |-> responseLen, response |-> <<>>, copied |-> 0,
     crashed |-> FALSE]

\* transmit with its check of the payload length (limit) and its check of the
\* response length (floor) switched on or off
TransmitCoreVariant(limit, floor, status, copies, command, hasData, data, dataLen, hasResponse, responseLen, rx) ==
    IF ~hasResponse THEN NoExchange(DFST_PARAMETER_NULL, responseLen)
    ELSE IF limit /\ hasData /\ dataLen > 0 /\ dataLen > ISO_MAX_DATA_SIZE - 1
    THEN NoExchange(DFST_BUFFER_OVERFLOW, responseLen)
    ELSE
    LET commandData == IF hasData /\ dataLen > 0
                       THEN <<command>> \o [i \in 1..dataLen |-> At(data, i - 1)]
                       ELSE <<command>>
        commandLen == IF hasData /\ dataLen > 0 THEN (1 + dataLen) % 256 ELSE 1
        apdu == BuildAPDU(ISO_CLA_DESFIRE, ISO_INS_DESFIRE_NATIVE, 0, 0,
                          commandData, commandLen, 0, TRUE)
        sent == [NoExchange(DFST_LIBRARY_ERROR, responseLen) EXCEPT
                    !.called = TRUE, !.apdu = apdu, !.txLength = Len(apdu) % 256,
                    !.rx = rx]
        len == rx.n - ISO_STATUS_LENGTH
    IN  IF ~rx.ok THEN [sent EXCEPT !.status = DFST_COMMUNICATION_ERROR]
        ELSE IF floor /\ rx.n < ISO_STATUS_LENGTH
        THEN [sent EXCEPT !.status = DFST_LENGTH_ERROR]
        ELSE IF ~copies \/ len < 0
        THEN [sent EXCEPT !.status = status, !.read = TRUE,
                          !.statusWord = StatusWord(rx)]
        ELSE [sent EXCEPT
                !.status = status, !.read = TRUE, !.statusWord = StatusWord(rx),
                !.wrote = TRUE, !.copied = len,
                !.response = SubSeq(RxBuffer(rx), 1, Min(len, ResponseCap)),
                !.responseLen = len,
                !.crashed = len > ResponseCap /\ rx.ub = "crash"]

\* a transmit that takes a payload of any length
TransmitCoreNoPayloadLimit(status, copies, command, hasData, data, dataLen, hasResponse, responseLen, rx) ==
    TransmitCoreVariant(FALSE, TRUE, status, copies, command, hasData, data,
                        dataLen, hasResponse, responseLen, rx)

\* a transmit that looks for the status word in a response of any length
TransmitCoreNoLengthCheck(status, copies, command, hasData, data, dataLen, hasResponse, responseLen, rx) ==
    TransmitCoreVariant(TRUE, FALSE, status, copies, command, hasData, data,
                        dataLen, hasResponse, responseLen, rx)

\* DesfireNFC::transmit(command, data, dataLen, response, responseLen), with
\* status the result of the switch on the status word, copies the test that
\* guards the copy into the caller's buffer, and rx the answer of the reader's
\* transceive should the call reach it.  The reader stores the length of its
\* answer in responseBufferLen (a uint16_t, handed over where the interface
\* declares a uint8_t pointer); txLength is apduLen as the interface's
\* uint8_t parameter receives it.
\*   status, responseLen, response: the return value and the out parameters
\*     (response holds the bytes of the caller's buffer that were written);
\*   called, apdu, txLength, rx: the transceive call, if any;
\*   read, statusWord: whether a status word was extracted, and which;
\*   copied: the byte count of the memcpy into the caller's buffer, whose
\*     capacity is ResponseCap.  A copy beyond the capacity overruns the
\*     caller's stack frame: the call goes on undisturbed ("intact"), or the
\*     overrun lands on the caller's responseLen ("clobber"), or it destroys
\*     the frame and the call never returns ("crash").
TransmitCore(status, copies, command, hasData, data, dataLen, hasResponse, responseLen, rx) ==
    IF ~hasResponse THEN NoExchange(DFST_PARAMETER_NULL, responseLen)
    ELSE IF hasData /\ dataLen > 0 /\ dataLen > ISO_MAX_DATA_SIZE - 1
    THEN NoExchange(DFST_BUFFER_OVERFLOW, responseLen)
    ELSE
    LET commandData == IF hasData /\ dataLen > 0
                       THEN <<command>> \o [i \in 1..dataLen |-> At(data, i - 1)]
                       ELSE <<command>>
        commandLen == IF hasData /\ dataLen > 0 THEN (1 + dataLen) % 256 ELSE 1
        apdu == BuildAPDU(ISO_CLA_DESFIRE, ISO_INS_DESFIRE_NATIVE, 0, 0,
                          commandData, commandLen, 0, TRUE)
        apduLen == Len(apdu)
        sent == [NoExchange(DFST_LIBRARY_ERROR, responseLen) EXCEPT
                    !.called = TRUE, !.apdu = apdu, !.txLength = apduLen % 256,
                    !.rx = rx]
        responseBuffer == RxBuffer(rx)
        responseBufferLen == rx.n
        statusWord == StatusWord(rx)
        len == responseBufferLen - ISO_STATUS_LENGTH
        overrun == len > ResponseCap
    IN  IF apduLen = 0 THEN NoExchange(DFST_BUFFER_OVERFLOW, responseLen)
        ELSE IF ~rx.ok THEN [sent EXCEPT !.status = DFST_COMMUNICATION_ERROR]
        ELSE IF responseBufferLen < ISO_STATUS_LENGTH
        THEN [sent EXCEPT !.status = DFST_LENGTH_ERROR]
        ELSE IF ~copies
        THEN [sent EXCEPT !.status = status, !.read = TRUE, !.statusWord = statusWord]
        ELSE [sent EXCEPT
                !.status = status, !.read = TRUE, !.statusWord = statusWord,
                !.wrote = TRUE, !.copied = len,
                !.response = SubSeq(responseBuffer, 1, Min(len, ResponseCap)),
                !.responseLen =
                    IF overrun /\ rx.ub = "clobber"
                    THEN At(responseBuffer, ResponseCap)
                         + 256 * (IF len >= ResponseCap + 2
                                  THEN At(responseBuffer, ResponseCap + 1)
                                  ELSE len \div 256)
                    ELSE len,
                !.crashed = overrun /\ rx.ub = "crash"]

\* line 351: response data is copied out only on success
CopiesResponse(status) == status = DFST_SUCCESS

Transmit(command, hasData, data, dataLen, hasResponse, responseLen, rx) ==
    TransmitCore(TransmitStatus(StatusWord(rx)),
                 CopiesResponse(TransmitStatus(StatusWord(rx))),
                 command, hasData, data, dataLen, hasResponse, responseLen, rx)

---------------------------------------------------------------------------
(* DESFireCardVersion (include/DesfireTypes.h) and
   DesfireNFC::getVersion(version) *)

\* a caller's record every byte of which is v
BlankVersion(v) ==
    [hardwareVendor |-> v, hardwareType |-> v, hardwareSubtype |-> v,
     hardwareVersionMajor |-> v, hardwareVersionMinor |-> v,
     hardwareStorageSize |-> v, hardwareProtocol |-> v,
     softwareVendor |-> v, softwareType |-> v, softwareSubtype |-> v,
     softwareVersionMajor |-> v, softwareVersionMinor |-> v,
     softwareStorageSize |-> v, softwareProtocol |-> v,
     uid |-> [i \in 1..7 |-> v], batchNumber |-> [i \in 1..5 |-> v],
     productionWeek |-> v, productionYear |-> v]

\* lines 156-163: the hardware fields from the first frame
ParseHardware(version, response) ==
    [version EXCEPT
        !.hardwareVendor = At(response, 0), !.hardwareType = At(response, 1),
        !.hardwareSubtype = At(response, 2),
        !.hardwareVersionMajor = At(response, 3),
        !.hardwareVersionMinor = At(response, 4),
        !.hardwareStorageSize = At(response, 5),
        !.hardwareProtocol = At(response, 6)]

\* lines 180-187: the software fields from the second frame
ParseSoftware(version, response2) ==
    [version EXCEPT
        !.softwareVendor = At(response2, 0), !.softwareType = At(response2, 1),
        !.softwareSubtype = At(response2, 2),
        !.softwareVersionMajor = At(response2, 3),
        !.softwareVersionMinor = At(response2, 4),
        !.softwareStorageSize = At(response2, 5),
        !.softwareProtocol = At(response2, 6)]

\* lines 204-224: UID and production information from the third frame, for
\* responseLen3 >= 10
ParseProduction(version, response3, responseLen3) ==
    LET withUid == [version EXCEPT !.uid = Memcpy(@, response3, 0, 7)]
    IN  IF responseLen3 >= 14
        THEN [withUid EXCEPT
                !.batchNumber = Memcpy(@, response3, 7, 5),
                !.productionWeek = At(response3, 12),
                !.productionYear = At(response3, 13)]
        ELSE [withUid EXCEPT
                !.batchNumber = Memcpy(Zeros(5), response3, 7, responseLen3 - 9),
                !.productionWeek = At(response3, responseLen3 - 2),
                !.productionYear = At(response3, responseLen3 - 1)]

\* a first round that fills the hardware fields before it looks at the length
FirstFrameUnchecked(version, t) ==
    IF t.status # DFST_SUCCESS /\ t.status # DFST_MORE_FRAMES
    THEN [ok |-> FALSE, version |-> version]
    ELSE [ok |-> t.responseLen >= 7, version |-> ParseHardware(version, t.response)]

\* a first round content with 6 payload bytes
FirstFrameShort(version, t) ==
    IF t.status # DFST_SUCCESS /\ t.status # DFST_MORE_FRAMES
    THEN [ok |-> FALSE, version |-> version]
    ELSE IF t.responseLen >= 6
    THEN [ok |-> TRUE, version |-> ParseHardware(version, t.response)]
    ELSE [ok |-> FALSE, version |-> version]

\* lines 151-166: what getVersion(version) does with the result t of its first
\* transmit; ok is FALSE where the code returns false
FirstFrame(version, t) ==
    IF t.status # DFST_SUCCESS /\ t.status # DFST_MORE_FRAMES
    THEN [ok |-> FALSE, version |-> version]
    ELSE IF t.responseLen >= 7
    THEN [ok |-> TRUE, version |-> ParseHardware(version, t.response)]
    ELSE [ok |-> FALSE, version |-> version]

\* lines 175-190: the same for the second transmit
SecondFrame(version, t) ==
    IF t.status # DFST_SUCCESS /\ t.status # DFST_MORE_FRAMES
    THEN [ok |-> FALSE, version |-> version]
    ELSE IF t.responseLen >= 7
    THEN [ok |-> TRUE, version |-> ParseSoftware(version, t.response)]
    ELSE [ok |-> FALSE, version |-> version]

\* lines 199-227: the same for the third transmit
ThirdFrame(version, t) ==
    IF t.status # DFST_SUCCESS
    THEN [ok |-> FALSE, version |-> version]
    ELSE IF t.responseLen >= 10
    THEN [ok |-> TRUE, version |-> ParseProduction(version, t.response, t.responseLen)]
    ELSE [ok |-> FALSE, version |-> version]

\* the outcome of a getVersion(version) run: the return value, the caller's
\* record as the run leaves it, the transmit calls made; want is TRUE when
\* the run stands at a transceive call for which script holds no answer yet
GvOutcome(ret, version, xfers, want) ==
    [ret |-> ret, version |-> version, xfers |-> xfers, want |-> want,
     crashed |-> xfers # <<>> /\ xfers[Len(xfers)].crashed]

\* DesfireNFC::getVersion(version) with a non-null version, run against the
\* reader answers script[1], script[2], ... (at most three)
GetVersionRun(version, script) ==
    LET t1 == Transmit(DF_CMD_GET_VERSION, FALSE, <<>>, 0, TRUE, 0, script[1])
        f1 == FirstFrame(version, t1)
        t2 == Transmit(DF_CMD_GET_ADDITIONAL_FRAME, FALSE, <<>>, 0, TRUE, 0, script[2])
        f2 == SecondFrame(f1.version, t2)
        t3 == Transmit(DF_CMD_GET_ADDITIONAL_FRAME, FALSE, <<>>, 0, TRUE, 0, script[3])
        f3 == ThirdFrame(f2.version, t3)
    IN  IF Len(script) < 1 THEN GvOutcome(FALSE, version, <<>>, TRUE)
        ELSE IF t1.crashed THEN GvOutcome(FALSE, version, <<t1>>, FALSE)
        ELSE IF ~f1.ok THEN GvOutcome(FALSE, f1.version, <<t1>>, FALSE)
        ELSE IF t1.status # DFST_MORE_FRAMES
        THEN GvOutcome(TRUE, f1.version, <<t1>>, FALSE)
        ELSE IF Len(script) < 2 THEN GvOutcome(FALSE, f1.version, <<t1>>, TRUE)
        ELSE IF t2.crashed THEN GvOutcome(FALSE, f1.version, <<t1, t2>>, FALSE)
        ELSE IF ~f2.ok THEN GvOutcome(FALSE, f2.version, <<t1, t2>>, FALSE)
        ELSE IF t2.status # DFST_MORE_FRAMES
        THEN GvOutcome(TRUE, f2.version, <<t1, t2>>, FALSE)
        ELSE IF Len(script) < 3 THEN GvOutcome(FALSE, f2.version, <<t1, t2>>, TRUE)
        ELSE IF t3.crashed THEN GvOutcome(FALSE, f2.version, <<t1, t2, t3>>, FALSE)
        ELSE GvOutcome(f3.ok, f3.version, <<t1, t2, t3>>, FALSE)

---------------------------------------------------------------------------
(* inputs of the public operations *)

\* what one detectCard call of the reader delivers: its return value and,
\* when it is true, len UID bytes fill, fill + 1, ...
UidLens == {4, 7, 10}
UidFills == {4, 128}

PollFailed == [ok |-> FALSE, len |-> 0, fill |-> 0]

Polls == {PollFailed} \cup {[ok |-> TRUE, len |-> l, fill |-> f] : l \in UidLens, f \in UidFills}

PollBytes(poll) == [i \in 1..poll.len |-> (poll.fill + i - 1) % 256]

Aids == {<<0, 0, 0>>, <<1, 2, 3>>}

KeyNos == {0, 1}
KeySizes == {0, 7, 8, 9, 16, 24}
KeyBytes(keySize) == [i \in 1..keySize |-> (165 + i - 1) % 256]

FirmwareVersions == {0, 305419896}

PriorFills == {0, 238}

---------------------------------------------------------------------------
(* the record of the last call *)

NoCall ==
    [op |-> "none", args |-> <<>>, ret |-> FALSE, trace |-> <<>>, xfers |-> <<>>,
     polls |-> <<>>, version0 |-> BlankVersion(0), version |-> BlankVersion(0),
     outUid |-> <<>>, outLen |-> 0, pre |-> <<>>]

\* the reader calls a sequence of transmit calls made
TraceOf(xfers) ==
    LET made == {i \in 1..Len(xfers) : xfers[i].called}
    IN  [i \in 1..Cardinality(made) |-> "transceive"]

---------------------------------------------------------------------------
(* DesfireNFC (src/DesfireNFC.cpp) *)

\* DesfireNFC::DesfireNFC
Init ==
    /\ authenticated = FALSE
    /\ cardDetected = FALSE
    /\ cryptoMode = DF_CRYPTO_DES
    /\ sessionKey = Zeros(SessionKeySize)
    /\ uid = Zeros(UidSize)
    /\ uidLength = 0
    /\ pc = "idle"
    /\ call = NoCall

\* an initialize that configures the reader whatever firmware version it
\* reported
InitializeIgnoresFirmware ==
    /\ pc = "idle"
    /\ \E begin \in BOOLEAN, firmware \in FirmwareVersions, configure \in BOOLEAN :
        LET ran == IF ~begin THEN <<"begin">>
                   ELSE <<"begin", "getFirmwareVersion", "configure">>
            ret == IF ~begin THEN FALSE ELSE configure
        IN  /\ (~begin => firmware = 0)
            /\ (Len(ran) < 3 => ~configure)
            /\ call' = [NoCall EXCEPT
                    !.op = "initialize",
                    !.args = [begin |-> begin, firmware |-> firmware, configure |-> configure],
                    !.ret = ret, !.trace = ran, !.pre = session]
    /\ pc' = "returned"
    /\ UNCHANGED session

\* DesfireNFC::initialize
Initialize ==
    /\ pc = "idle"
    /\ \E begin \in BOOLEAN, firmware \in FirmwareVersions, configure \in BOOLEAN :
        LET ran == IF ~begin THEN <<"begin">>
                   ELSE IF firmware = 0 THEN <<"begin", "getFirmwareVersion">>
                   ELSE <<"begin", "getFirmwareVersion", "configure">>
            ret == IF ~begin THEN FALSE ELSE IF firmware = 0 THEN FALSE ELSE configure
        IN  \* an answer the run does not ask for is not drawn
            /\ (~begin => firmware = 0)
            /\ (Len(ran) < 3 => ~configure)
            /\ call' = [NoCall EXCEPT
                    !.op = "initialize",
                    !.args = [begin |-> begin, firmware |-> firmware, configure |-> configure],
                    !.ret = ret, !.trace = ran, !.pre = session]
    /\ pc' = "returned"
    /\ UNCHANGED session

\* a length check that lets the longer UIDs through
NotDesfireUidShort(detected, length) == detected /\ length < 7

\* line 75: a detected card whose UID is not 7 bytes long is no DESFire card
NotDesfireUid(detected, length) == detected /\ length # 7

\* a detectCard that, once a card was detected, keeps the flag when the poll
\* fails
DetectCardSticky ==
    /\ pc = "idle"
    /\ \E poll \in Polls :
        LET uid1 == IF poll.ok THEN Memcpy(uid, PollBytes(poll), 0, poll.len) ELSE uid
            uidLength1 == IF poll.ok THEN poll.len ELSE uidLength
            cardDetected1 == poll.ok \/ cardDetected
            reject == NotDesfireUid(cardDetected1, uidLength1)
        IN  /\ uid' = uid1
            /\ uidLength' = uidLength1
            /\ cardDetected' = IF reject THEN FALSE ELSE cardDetected1
            /\ call' = [NoCall EXCEPT
                    !.op = "detectCard",
                    !.ret = IF reject THEN FALSE ELSE cardDetected1,
                    !.trace = <<"detectCard">>, !.polls = <<poll>>, !.pre = session]
    /\ pc' = "returned"
    /\ UNCHANGED <<sessionKey, authenticated, cryptoMode>>

\* DesfireNFC::detectCard
DetectCard ==
    /\ pc = "idle"
    /\ \E poll \in Polls :
        LET uid1 == IF poll.ok THEN Memcpy(uid, PollBytes(poll), 0, poll.len) ELSE uid
            uidLength1 == IF poll.ok THEN poll.len ELSE uidLength
            cardDetected1 == poll.ok
            reject == NotDesfireUid(cardDetected1, uidLength1)
        IN  /\ uid' = uid1
            /\ uidLength' = uidLength1
            /\ cardDetected' = IF reject THEN FALSE ELSE cardDetected1
            /\ call' = [NoCall EXCEPT
                    !.op = "detectCard",
                    !.ret = IF reject THEN FALSE ELSE cardDetected1,
                    !.trace = <<"detectCard">>, !.polls = <<poll>>, !.pre = session]
    /\ pc' = "returned"
    /\ UNCHANGED <<sessionKey, authenticated, cryptoMode>>

\* a getCardUID that answers from the cache whenever the cache holds a UID,
\* whatever the card-detected flag says
GetCardUIDStaleCache ==
    /\ pc = "idle"
    /\ \E hasUid \in BOOLEAN, hasLen \in BOOLEAN :
        LET args == [hasUid |-> hasUid, hasLen |-> hasLen]
        IN  IF ~hasUid \/ ~hasLen
            THEN /\ call' = [NoCall EXCEPT !.op = "getCardUID", !.args = args,
                                !.ret = FALSE, !.pre = session]
                 /\ UNCHANGED <<uid, uidLength, cardDetected>>
            ELSE IF cardDetected \/ uidLength > 0
            THEN /\ call' = [NoCall EXCEPT !.op = "getCardUID", !.args = args,
                                !.ret = TRUE, !.pre = session,
                                !.outUid = SubSeq(uid, 1, uidLength),
                                !.outLen = uidLength]
                 /\ UNCHANGED <<uid, uidLength, cardDetected>>
            ELSE \E poll \in Polls :
                 IF poll.ok
                 THEN /\ uid' = Memcpy(uid, PollBytes(poll), 0, poll.len)
                      /\ uidLength' = poll.len
                      /\ cardDetected' = TRUE
                      /\ call' = [NoCall EXCEPT !.op = "getCardUID", !.args = args,
                                     !.ret = TRUE, !.pre = session,
                                     !.trace = <<"detectCard">>, !.polls = <<poll>>,
                                     !.outUid = PollBytes(poll), !.outLen = poll.len]
                 ELSE /\ call' = [NoCall EXCEPT !.op = "getCardUID", !.args = args,
                                     !.ret = FALSE, !.pre = session,
                                     !.trace = <<"detectCard">>, !.polls = <<poll>>]
                      /\ UNCHANGED <<uid, uidLength, cardDetected>>
    /\ pc' = "returned"
    /\ UNCHANGED <<sessionKey, authenticated, cryptoMode>>

\* a getCardUID that asks the reader each time, whatever the cache holds
GetCardUIDAlwaysPolls ==
    /\ pc = "idle"
    /\ \E hasUid \in BOOLEAN, hasLen \in BOOLEAN :
        LET args == [hasUid |-> hasUid, hasLen |-> hasLen]
        IN  IF ~hasUid \/ ~hasLen
            THEN /\ call' = [NoCall EXCEPT !.op = "getCardUID", !.args = args,
                                !.ret = FALSE, !.pre = session]
                 /\ UNCHANGED <<uid, uidLength, cardDetected>>
            ELSE \E poll \in Polls :
                 IF poll.ok
                 THEN /\ uid' = Memcpy(uid, PollBytes(poll), 0, poll.len)
                      /\ uidLength' = poll.len
                      /\ cardDetected' = TRUE
                      /\ call' = [NoCall EXCEPT !.op = "getCardUID", !.args = args,
                                     !.ret = TRUE, !.pre = session,
                                     !.trace = <<"detectCard">>, !.polls = <<poll>>,
                                     !.outUid = PollBytes(poll), !.outLen = poll.len]
                 ELSE /\ call' = [NoCall EXCEPT !.op = "getCardUID", !.args = args,
                                     !.ret = FALSE, !.pre = session,
                                     !.trace = <<"detectCard">>, !.polls = <<poll>>]
                      /\ UNCHANGED <<uid, uidLength, cardDetected>>
    /\ pc' = "returned"
    /\ UNCHANGED <<sessionKey, authenticated, cryptoMode>>

\* DesfireNFC::getCardUID(uid, uidLength); hasUid and hasLen tell whether the
\* caller's pointers are non-null, outUid and outLen are what the call
\* writes through them
GetCardUID ==
    /\ pc = "idle"
    /\ \E hasUid \in BOOLEAN, hasLen \in BOOLEAN :
        LET args == [hasUid |-> hasUid, hasLen |-> hasLen]
        IN  IF ~hasUid \/ ~hasLen
            THEN /\ call' = [NoCall EXCEPT !.op = "getCardUID", !.args = args,
                                !.ret = FALSE, !.pre = session]
                 /\ UNCHANGED <<uid, uidLength, cardDetected>>
            ELSE IF cardDetected
            THEN /\ call' = [NoCall EXCEPT !.op = "getCardUID", !.args = args,
                                !.ret = TRUE, !.pre = session,
                                !.outUid = SubSeq(uid, 1, uidLength),
                                !.outLen = uidLength]
                 /\ UNCHANGED <<uid, uidLength, cardDetected>>
            ELSE \E poll \in Polls :
                 IF poll.ok
                 THEN /\ uid' = Memcpy(uid, PollBytes(poll), 0, poll.len)
                      /\ uidLength' = poll.len
                      /\ cardDetected' = TRUE
                      /\ call' = [NoCall EXCEPT !.op = "getCardUID", !.args = args,
                                     !.ret = TRUE, !.pre = session,
                                     !.trace = <<"detectCard">>, !.polls = <<poll>>,
                                     !.outUid = PollBytes(poll), !.outLen = poll.len]
                 ELSE /\ call' = [NoCall EXCEPT !.op = "getCardUID", !.args = args,
                                     !.ret = FALSE, !.pre = session,
                                     !.trace = <<"detectCard">>, !.polls = <<poll>>]
                      /\ UNCHANGED <<uid, uidLength, cardDetected>>
    /\ pc' = "returned"
    /\ UNCHANGED <<sessionKey, authenticated, cryptoMode>>

\* DesfireNFC::getVersion()
GetVersionSimple ==
    /\ pc = "idle"
    /\ \E rx \in RxFrames :
        LET t == Transmit(DF_CMD_GET_VERSION, FALSE, <<>>, 0, TRUE, 0, rx)
        IN  /\ call' = [NoCall EXCEPT
                    !.op = "getVersionSimple",
                    !.ret = (t.status = DFST_SUCCESS \/ t.status = DFST_MORE_FRAMES),
                    !.xfers = <<t>>, !.trace = TraceOf(<<t>>), !.pre = session]
            /\ pc' = IF t.crashed THEN "crashed" ELSE "returned"
    /\ UNCHANGED session

\* the caller's step after a getVersion(version) run came to its end
GetVersionDone(version0, o) ==
    /\ call' = [NoCall EXCEPT
            !.op = "getVersion", !.args = [hasVersion |-> TRUE], !.ret = o.ret,
            !.xfers = o.xfers, !.trace = TraceOf(o.xfers), !.pre = session,
            !.version0 = version0, !.version = o.version]
    /\ pc' = IF o.crashed THEN "crashed" ELSE "returned"

\* DesfireNFC::getVersion(version); each reader answer is drawn when the run
\* reaches the transceive call that asks for it
GetVersion ==
    /\ pc = "idle"
    /\ \/ /\ call' = [NoCall EXCEPT !.op = "getVersion",
                         !.args = [hasVersion |-> FALSE], !.ret = FALSE,
                         !.pre = session]
          /\ pc' = "returned"
       \/ \E fill \in PriorFills, rx1 \in RxFrames :
            LET version0 == BlankVersion(fill)
                o1 == GetVersionRun(version0, <<rx1>>)
            IN  IF ~o1.want THEN GetVersionDone(version0, o1)
                ELSE \E rx2 \in RxFrames :
                    LET o2 == GetVersionRun(version0, <<rx1, rx2>>)
                    IN  IF ~o2.want THEN GetVersionDone(version0, o2)
                        ELSE \E rx3 \in RxFrames :
                            GetVersionDone(version0,
                                           GetVersionRun(version0, <<rx1, rx2, rx3>>))
    /\ UNCHANGED session

\* selectApplication without its null check
SelectApplicationRunUnchecked(hasAid, aid, rx) ==
    LET t == Transmit(DF_CMD_SELECT_APPLICATION, hasAid, aid, AidSize, TRUE, 0, rx)
    IN  [ret |-> t.status, xfers |-> <<t>>]

\* a selectApplication that sends the command code without the AID
SelectApplicationRunNoAid(hasAid, aid, rx) ==
    IF ~hasAid THEN [ret |-> DFST_PARAMETER_NULL, xfers |-> <<>>]
    ELSE LET t == Transmit(DF_CMD_SELECT_APPLICATION, FALSE, <<>>, 0, TRUE, 0, rx)
         IN  [ret |-> t.status, xfers |-> <<t>>]

\* DesfireNFC::selectApplication(aid): the return value and the transmit
\* calls made, with rx the reader's answer should the call reach it
SelectApplicationRun(hasAid, aid, rx) ==
    IF ~hasAid THEN [ret |-> DFST_PARAMETER_NULL, xfers |-> <<>>]
    ELSE LET t == Transmit(DF_CMD_SELECT_APPLICATION, hasAid, aid, AidSize, TRUE, 0, rx)
         IN  [ret |-> t.status, xfers |-> <<t>>]

\* a selectApplication that, as the card does, forgets the authentication
SelectApplicationDropsAuth ==
    /\ pc = "idle"
    /\ \E hasAid \in BOOLEAN, aid \in Aids, rx \in RxFrames :
        LET o == SelectApplicationRun(hasAid, IF hasAid THEN aid ELSE <<>>, rx)
        IN  /\ (~hasAid => aid = <<0, 0, 0>>)
            /\ (o.xfers = <<>> => rx = RxFailed)
            /\ call' = [NoCall EXCEPT !.op = "selectApplication",
                           !.args = [hasAid |-> hasAid,
                                     aid |-> IF hasAid THEN aid ELSE <<>>],
                           !.ret = o.ret, !.xfers = o.xfers,
                           !.trace = TraceOf(o.xfers), !.pre = session]
            /\ pc' = IF o.xfers # <<>> /\ o.xfers[1].crashed THEN "crashed" ELSE "returned"
    /\ authenticated' = FALSE
    /\ UNCHANGED <<uid, uidLength, cardDetected, sessionKey, cryptoMode>>

SelectApplication ==
    /\ pc = "idle"
    /\ \E hasAid \in BOOLEAN, aid \in Aids, rx \in RxFrames :
        LET o == SelectApplicationRun(hasAid, IF hasAid THEN aid ELSE <<>>, rx)
        IN  \* a null aid is one argument, and an answer not asked for is not drawn
            /\ (~hasAid => aid = <<0, 0, 0>>)
            /\ (o.xfers = <<>> => rx = RxFailed)
            /\ call' = [NoCall EXCEPT !.op = "selectApplication",
                           !.args = [hasAid |-> hasAid,
                                     aid |-> IF hasAid THEN aid ELSE <<>>],
                           !.ret = o.ret, !.xfers = o.xfers,
                           !.trace = TraceOf(o.xfers), !.pre = session]
            /\ pc' = IF o.xfers # <<>> /\ o.xfers[1].crashed THEN "crashed" ELSE "returned"
    /\ UNCHANGED session

\* a key size check that ignores the crypto mode
KeySizeOkAnyMode(mode, keySize) == keySize \in {8, 16}

\* the key size check of DesfireNFC::authenticate (lines 392-413)
KeySizeOk(mode, keySize) ==
    CASE mode = DF_CRYPTO_DES -> keySize = 8
      [] mode = DF_CRYPTO_3K3DES -> keySize = 16
      [] mode = DF_CRYPTO_AES -> keySize = 16
      [] OTHER -> FALSE

\* an authenticate whose failure ends the session
AuthenticateResultClears(status, key, keySize) ==
    IF status # DFST_SUCCESS
    THEN [ret |-> status, sessionKey |-> Zeros(SessionKeySize), authenticated |-> FALSE]
    ELSE [ret |-> DFST_SUCCESS, sessionKey |-> Memcpy(sessionKey, key, 0, keySize),
          authenticated |-> TRUE]

\* lines 426-434 of DesfireNFC::authenticate: what the call does with the
\* status of its transmit; the session key and the authenticated flag after it
AuthenticateResult(status, key, keySize) ==
    IF status # DFST_SUCCESS
    THEN [ret |-> status, sessionKey |-> sessionKey, authenticated |-> authenticated]
    ELSE [ret |-> DFST_SUCCESS, sessionKey |-> Memcpy(sessionKey, key, 0, keySize),
          authenticated |-> TRUE]

\* an authenticate that looks at the key size before it looks at the key
AuthenticateSizeFirst ==
    /\ pc = "idle"
    /\ \E keyNo \in KeyNos, hasKey \in BOOLEAN, keySize \in KeySizes :
        LET args == [keyNo |-> keyNo, hasKey |-> hasKey, keySize |-> keySize]
            early(status) ==
                /\ call' = [NoCall EXCEPT !.op = "authenticate", !.args = args,
                               !.ret = status, !.pre = session]
                /\ pc' = "returned"
                /\ UNCHANGED <<sessionKey, authenticated>>
        IN  IF ~KeySizeOk(cryptoMode, keySize) THEN early(DFST_PARAMETER_ERROR)
            ELSE IF ~hasKey THEN early(DFST_PARAMETER_NULL)
            ELSE \E rx \in RxFrames :
                LET cmdData == <<keyNo, cryptoMode>>
                    t == Transmit(DF_CMD_AUTHENTICATE, TRUE, cmdData, 2, TRUE, 0, rx)
                    r == AuthenticateResult(t.status, KeyBytes(keySize), keySize)
                IN  /\ call' = [NoCall EXCEPT !.op = "authenticate", !.args = args,
                                   !.ret = r.ret, !.xfers = <<t>>,
                                   !.trace = TraceOf(<<t>>), !.pre = session]
                    /\ pc' = IF t.crashed THEN "crashed" ELSE "returned"
                    /\ sessionKey' = IF t.crashed THEN sessionKey ELSE r.sessionKey
                    /\ authenticated' = IF t.crashed THEN authenticated ELSE r.authenticated
    /\ UNCHANGED <<uid, uidLength, cardDetected, cryptoMode>>

\* DesfireNFC::authenticate(keyNo, key, keySize)
Authenticate ==
    /\ pc = "idle"
    /\ \E keyNo \in KeyNos, hasKey \in BOOLEAN, keySize \in KeySizes :
        LET args == [keyNo |-> keyNo, hasKey |-> hasKey, keySize |-> keySize]
            early(status) ==
                /\ call' = [NoCall EXCEPT !.op = "authenticate", !.args = args,
                               !.ret = status, !.pre = session]
                /\ pc' = "returned"
                /\ UNCHANGED <<sessionKey, authenticated>>
        IN  IF ~hasKey THEN early(DFST_PARAMETER_NULL)
            ELSE IF ~KeySizeOk(cryptoMode, keySize) THEN early(DFST_PARAMETER_ERROR)
            ELSE \E rx \in RxFrames :
                LET cmdData == <<keyNo, cryptoMode>>
                    t == Transmit(DF_CMD_AUTHENTICATE, TRUE, cmdData, 2, TRUE, 0, rx)
                    r == AuthenticateResult(t.status, KeyBytes(keySize), keySize)
                IN  /\ call' = [NoCall EXCEPT !.op = "authenticate", !.args = args,
                                   !.ret = r.ret, !.xfers = <<t>>,
                                   !.trace = TraceOf(<<t>>), !.pre = session]
                    /\ pc' = IF t.crashed THEN "crashed" ELSE "returned"
                    /\ sessionKey' = IF t.crashed THEN sessionKey ELSE r.sessionKey
                    /\ authenticated' = IF t.crashed THEN authenticated ELSE r.authenticated
    /\ UNCHANGED <<uid, uidLength, cardDetected, cryptoMode>>

\* the caller takes the result of the call that returned; the next call can start
Return ==
    /\ pc = "returned"
    /\ pc' = "idle"
    /\ call' = NoCall
    /\ UNCHANGED session

Next ==
    \/ Initialize
    \/ DetectCard
    \/ GetCardUID
    \/ GetVersionSimple
    \/ GetVersion
    \/ SelectApplication
    \/ Authenticate
    \/ Return

Spec == Init /\ [][Next]_vars

---------------------------------------------------------------------------
(* ISO7816APDU as a unit (src/ISO7816APDU.cpp): buildCommand, parseResponse,
   isSuccess and convertStatus applied to arguments of their parameter types.
   The fields dataLength and le of a Command, the index and the length
   buildCommand reports, and the responseLength of parseResponse are
   uint8_t; a status word is uint16_t. *)

ISO_SW_BYTES_REMAINING == 24832     \* 0x6100

Uint8 == 256
Uint16 == 65536

\* the data array of a Command, every byte of it defined
CommandData(fill) == [i \in 1..ISO_MAX_DATA_SIZE |-> (fill + i - 1) % Uint8]

CommandHeaders == {<<144, 0, 0, 0>>, <<128, 164, 4, 12>>}
CommandLes == {0, 1, 255}

\* ISO7816APDU::Command; hasData tells that the data member is there, which
\* it always is: it is an array inside the structure
Commands ==
    {[cla |-> h[1], ins |-> h[2], p1 |-> h[3], p2 |-> h[4],
      data |-> CommandData(33), hasData |-> TRUE,
      dataLength |-> d, le |-> e] :
        h \in CommandHeaders, d \in 0..(Uint8 - 1), e \in CommandLes}

\* the caller's APDU buffer before the call: ISO_MAX_APDU_SIZE bytes never
\* written
BlankApdu == [i \in 1..ISO_MAX_APDU_SIZE |-> Garbage]

\* ISO7816APDU::validateCommand
ValidateCommand(cmd) ==
    IF cmd.dataLength > ISO_MAX_DATA_SIZE THEN FALSE
    ELSE IF cmd.le > ISO_MAX_DATA_SIZE THEN FALSE
    ELSE IF cmd.dataLength > 0 /\ ~cmd.hasData THEN FALSE
    ELSE TRUE

\* lines 17-38 of ISO7816APDU::buildCommand: the encoding into the caller's
\* buffer apdu0 and the length reported.  index is a uint8_t.
EncodeCommand(cmd, apdu0) ==
    LET header == [apdu0 EXCEPT ![1] = cmd.cla, ![2] = cmd.ins,
                                ![3] = cmd.p1, ![4] = cmd.p2]
        withData ==
            IF cmd.dataLength > 0
            THEN [i \in 1..Len(header) |->
                    IF i = 5 THEN cmd.dataLength
                    ELSE IF i >= 6 /\ i <= 5 + cmd.dataLength THEN cmd.data[i - 5]
                    ELSE header[i]]
            ELSE header
        index == IF cmd.dataLength > 0 THEN (5 + cmd.dataLength) % Uint8 ELSE 4
        withLe == IF cmd.le > 0 THEN [withData EXCEPT ![index + 1] = cmd.le]
                  ELSE withData
        last == IF cmd.le > 0 THEN (index + 1) % Uint8 ELSE index
    IN  [ret |-> DFST_SUCCESS, apdu |-> withLe, apduLength |-> last]

\* a buildCommand that checks the command only
BuildCommandNoNullCheck(cmd, apdu0, apduLength0, hasApdu, hasApduLength) ==
    IF ~ValidateCommand(cmd)
    THEN [ret |-> DFST_PARAMETER_ERROR, apdu |-> apdu0, apduLength |-> apduLength0]
    ELSE EncodeCommand(cmd, apdu0)

\* ISO7816APDU::buildCommand(cmd, apdu, apduLength); apdu0 and apduLength0
\* are the caller's buffer and length before the call, hasApdu and
\* hasApduLength tell whether the pointers are non-null
BuildCommand(cmd, apdu0, apduLength0, hasApdu, hasApduLength) ==
    IF ~hasApdu \/ ~hasApduLength
    THEN [ret |-> DFST_PARAMETER_NULL, apdu |-> apdu0, apduLength |-> apduLength0]
    ELSE IF ~ValidateCommand(cmd)
    THEN [ret |-> DFST_PARAMETER_ERROR, apdu |-> apdu0, apduLength |-> apduLength0]
    ELSE EncodeCommand(cmd, apdu0)

\* ISO7816APDU::Response before the call: nothing of it written
BlankResponse ==
    [data |-> [i \in 1..ISO_MAX_DATA_SIZE |-> Garbage], dataLength |-> Garbage,
     status |-> Garbage]

\* a parseResponse that reads the status word low byte first
ParseResponseLittleEndian(response, hasResponse, responseLength, result0) ==
    IF ~hasResponse \/ responseLength < ISO_STATUS_LENGTH
    THEN [ret |-> DFST_PARAMETER_ERROR, result |-> result0]
    ELSE [ret |-> DFST_SUCCESS,
          result |-> [data |-> Memcpy(result0.data, response, 0, responseLength - 2),
                      dataLength |-> responseLength - 2,
                      status |-> At(response, responseLength - 1) * 256
                                 + At(response, responseLength - 2)]]

\* a parseResponse that hands the status word over with the data
ParseResponseKeepsStatus(response, hasResponse, responseLength, result0) ==
    IF ~hasResponse \/ responseLength < ISO_STATUS_LENGTH
    THEN [ret |-> DFST_PARAMETER_ERROR, result |-> result0]
    ELSE [ret |-> DFST_SUCCESS,
          result |-> [data |-> Memcpy(result0.data, response, 0, responseLength),
                      dataLength |-> responseLength,
                      status |-> At(response, responseLength - 2) * 256
                                 + At(response, responseLength - 1)]]

\* ISO7816APDU::parseResponse(response, responseLength, result)
ParseResponse(response, hasResponse, responseLength, result0) ==
    IF ~hasResponse \/ responseLength < ISO_STATUS_LENGTH
    THEN [ret |-> DFST_PARAMETER_ERROR, result |-> result0]
    ELSE
    LET status == (At(response, responseLength - 2) * 256
                   + At(response, responseLength - 1)) % Uint16
    IN  IF responseLength > ISO_STATUS_LENGTH
        THEN [ret |-> DFST_SUCCESS,
              result |-> [data |-> Memcpy(result0.data, response, 0,
                                          responseLength - ISO_STATUS_LENGTH),
                          dataLength |-> responseLength - ISO_STATUS_LENGTH,
                          status |-> status]]
        ELSE [ret |-> DFST_SUCCESS,
              result |-> [result0 EXCEPT !.dataLength = 0, !.status = status]]

\* an isSuccess that takes every word of the 0x91 page for a success
IsSuccessSw1(status) ==
    \/ status = ISO_SW_SUCCESS
    \/ (status \div 256) * 256 = ISO_SW_SUCCESS_DESFIRE
    \/ (status \div 256) * 256 = ISO_SW_BYTES_REMAINING

\* an isSuccess for which the warnings 0x62xx and 0x63xx are successes too
IsSuccessWarnings(status) ==
    \/ status = ISO_SW_SUCCESS
    \/ status = ISO_SW_SUCCESS_DESFIRE
    \/ status \div 256 \in {97, 98, 99}

\* ISO7816APDU::isSuccess; (status \div 256) * 256 is status & 0xFF00
IsSuccess(status) ==
    \/ status = ISO_SW_SUCCESS
    \/ status = ISO_SW_SUCCESS_DESFIRE
    \/ (status \div 256) * 256 = ISO_SW_BYTES_REMAINING

\* the status words handed to parseResponse
CodecStatusWords == {0, 255, 256, 4660, 24832, 36864, 37120, 37295, 65535}

\* the response lengths a caller can hand to parseResponse
ResponseLengths == 0..(Uint8 - 1)

\* a call of ISO7816APDU::convertStatus
CallConvertStatus ==
    /\ pc = "idle"
    /\ \E status \in 0..(Uint16 - 1) :
        call' = [NoCall EXCEPT !.op = "convertStatus",
                    !.args = [status |-> status],
                    !.ret = ConvertStatus(status), !.pre = session]
    /\ pc' = "returned"
    /\ UNCHANGED session

\* a call of ISO7816APDU::isSuccess
CallIsSuccess ==
    /\ pc = "idle"
    /\ \E status \in 0..(Uint16 - 1) :
        call' = [NoCall EXCEPT !.op = "isSuccess",
                    !.args = [status |-> status],
                    !.ret = IsSuccess(status), !.pre = session]
    /\ pc' = "returned"
    /\ UNCHANGED session

\* a call of ISO7816APDU::buildCommand
CallBuildCommand ==
    /\ pc = "idle"
    /\ \E cmd \in Commands, hasApdu \in BOOLEAN, hasApduLength \in BOOLEAN :
        /\ call' = [NoCall EXCEPT !.op = "buildCommand",
                       !.args = [cmd |-> cmd, hasApdu |-> hasApdu,
                                 hasApduLength |-> hasApduLength],
                       !.ret = BuildCommand(cmd, BlankApdu, Garbage,
                                            hasApdu, hasApduLength),
                       !.pre = session]
    /\ pc' = "returned"
    /\ UNCHANGED session

\* a call of ISO7816APDU::parseResponse on responseLength bytes of which the
\* last two, when there are two, are the status word
CallParseResponse ==
    /\ pc = "idle"
    /\ \E hasResponse \in BOOLEAN, n \in ResponseLengths, f \in PayloadFills,
          w \in CodecStatusWords :
        LET response == RxBuffer([n |-> n, fill |-> f, sw |-> w])
        IN  /\ (~hasResponse => n = 0 /\ f = 17 /\ w = 0)
            /\ call' = [NoCall EXCEPT !.op = "parseResponse",
                           !.args = [hasResponse |-> hasResponse,
                                     response |-> response, responseLength |-> n],
                           !.ret = ParseResponse(response, hasResponse, n,
                                                 BlankResponse),
                           !.pre = session]
    /\ pc' = "returned"
    /\ UNCHANGED session

\* buildCommand, then parseResponse on the echo of the command: the data
\* field of the APDU built, followed by the two bytes of a status word.  The
\* length of the echo reaches parseResponse as a uint8_t.
CallRoundTrip ==
    /\ pc = "idle"
    /\ \E cmd \in Commands, w \in CodecStatusWords :
        LET built == BuildCommand(cmd, BlankApdu, Garbage, TRUE, TRUE)
            echo == [i \in 1..cmd.dataLength |-> built.apdu[5 + i]]
                    \o <<w \div 256, w % 256>>
            parsed == ParseResponse(echo, TRUE, Len(echo) % Uint8, BlankResponse)
        IN  /\ cmd.cla = ISO_CLA_DESFIRE /\ cmd.le = 0
            /\ call' = [NoCall EXCEPT !.op = "roundTrip",
                           !.args = [cmd |-> cmd, sw |-> w],
                           !.ret = [built |-> built, echo |-> echo,
                                    parsed |-> parsed],
                           !.pre = session]
    /\ pc' = "returned"
    /\ UNCHANGED session

\* the command codes handed to transmit
TransmitCommands == {DF_CMD_GET_VERSION, DF_CMD_SELECT_APPLICATION}

\* the payload lengths for which transmit is tried against every frame of
\* the reader; the others are tried against the frames of TransmitProbes
TransmitShortPayloads == {0, 2, 3}

TransmitProbes ==
    {RxFailed,
     [ok |-> TRUE, n |-> 1, fill |-> 0, sw |-> 0, ub |-> "intact"],
     [ok |-> TRUE, n |-> 2, fill |-> 17, sw |-> ISO_SW_SUCCESS_DESFIRE, ub |-> "intact"]}

\* the payload a caller hands to transmit: dataLen bytes
TransmitPayload(dataLen) == [i \in 1..dataLen |-> (65 + i - 1) % Uint8]

\* a call of DesfireNFC::transmit by a member function whose response buffer
\* holds ResponseCap bytes and whose responseLen is 0, as in every caller.
\* dataLen is a uint8_t.
CallTransmit ==
    /\ pc = "idle"
    /\ \E command \in TransmitCommands, hasData \in BOOLEAN,
          dataLen \in 0..(Uint8 - 1), hasResponse \in BOOLEAN, rx \in RxFrames :
        LET data == IF hasData THEN TransmitPayload(dataLen) ELSE <<>>
            t == Transmit(command, hasData, data, dataLen, hasResponse, 0, rx)
        IN  /\ (dataLen \notin TransmitShortPayloads => rx \in TransmitProbes)
            /\ (~t.called => rx = RxFailed)
            /\ (~hasData => dataLen \in {0, 255})
            /\ (~hasResponse => command = DF_CMD_GET_VERSION)
            /\ call' = [NoCall EXCEPT !.op = "transmit",
                           !.args = [command |-> command, hasData |-> hasData,
                                     data |-> data, dataLen |-> dataLen,
                                     hasResponse |-> hasResponse],
                           !.ret = t.status, !.xfers = <<t>>,
                           !.trace = TraceOf(<<t>>), !.pre = session]
            /\ pc' = IF t.crashed THEN "crashed" ELSE "returned"
    /\ UNCHANGED session

\* isSuccess and convertStatus applied to one status word
CallStatusPredicates ==
    /\ pc = "idle"
    /\ \E status \in 0..(Uint16 - 1) :
        call' = [NoCall EXCEPT !.op = "statusPredicates",
                    !.args = [status |-> status],
                    !.ret = [isSuccess |-> IsSuccess(status),
                             converted |-> ConvertStatus(status)],
                    !.pre = session]
    /\ pc' = "returned"
    /\ UNCHANGED session

CodecNext ==
    \/ CallTransmit
    \/ CallStatusPredicates
    \/ CallConvertStatus
    \/ CallIsSuccess
    \/ CallBuildCommand
    \/ CallParseResponse
    \/ CallRoundTrip
    \/ Return

CodecSpec == Init /\ [][CodecNext]_vars

---------------------------------------------------------------------------
(* Properties *)

Returned(op) == pc = "returned" /\ call.op = op

\* transmit call t got from the reader a frame of len payload bytes and
\* status word sw
Carries(t, len, sw) ==
    t.called /\ t.rx.ok /\ t.rx.n = len + ISO_STATUS_LENGTH /\ t.rx.sw = sw

\* the reader answered the k-th transceive of the call with frame k of script,
\* for every transceive the call made
FollowsScript(xfers, script) ==
    /\ Len(xfers) >= 1
    /\ \A i \in 1..Len(xfers) :
        i <= Len(script) /\ Carries(xfers[i], script[i].len, script[i].sw)

SW_MORE_FRAMES == 37295     \* 0x91AF
SW_APPLICATION_NOT_FOUND == 37280     \* 0x91A0

FullVersionScript ==
    <<[len |-> 7, sw |-> SW_MORE_FRAMES], [len |-> 7, sw |-> SW_MORE_FRAMES],
      [len |-> 14, sw |-> ISO_SW_SUCCESS_DESFIRE]>>

TruncatedVersionScript ==
    <<[len |-> 7, sw |-> SW_MORE_FRAMES], [len |-> 7, sw |-> SW_MORE_FRAMES],
      [len |-> 10, sw |-> ISO_SW_SUCCESS_DESFIRE]>>

\* C1: against a reader answering 7 bytes + 0x91AF, 7 bytes + 0x91AF,
\* 14 bytes + 0x9100, getVersion(version) returns true after exactly three
\* transceive calls, with uid = the third frame's first 7 bytes and
\* productionYear = its 14th byte.
C1_GetVersionThreeFrames ==
    (Returned("getVersion") /\ call.args.hasVersion
        /\ FollowsScript(call.xfers, FullVersionScript))
    => /\ call.ret = TRUE
       /\ Len(call.trace) = 3
       /\ Len(call.xfers) = 3
       /\ call.version.uid = SubSeq(RxBuffer(call.xfers[3].rx), 1, 7)
       /\ call.version.productionYear = RxBuffer(call.xfers[3].rx)[14]

\* C2: the status transmit returns for a response of at least 2 bytes is
\* convertStatus of the status word in its last two bytes (0x91AF is
\* MoreFrames, 0x91A0 is ApplicationNotFound), and selectApplication reports
\* it as-is.
C2_TransmitStatusIsConvertStatus ==
    /\ pc # "idle" =>
        \A i \in 1..Len(call.xfers) :
            (call.xfers[i].called /\ call.xfers[i].rx.ok
                /\ call.xfers[i].rx.n >= ISO_STATUS_LENGTH)
            => call.xfers[i].status = ConvertStatus(call.xfers[i].rx.sw)
    /\ (Returned("selectApplication") /\ Len(call.xfers) = 1
            /\ call.xfers[1].rx.ok /\ call.xfers[1].rx.n >= ISO_STATUS_LENGTH)
        => call.ret = ConvertStatus(call.xfers[1].rx.sw)

C4_TruncatedThirdFrame ==
    (Returned("getVersion") /\ call.args.hasVersion
        /\ FollowsScript(call.xfers, TruncatedVersionScript))
    => /\ call.ret = TRUE
       /\ Len(call.xfers) = 3
       /\ call.version.uid = SubSeq(RxBuffer(call.xfers[3].rx), 1, 7)
       /\ SubSeq(call.version.batchNumber, 1, 3) = SubSeq(RxBuffer(call.xfers[3].rx), 8, 10)
       /\ SubSeq(call.version.batchNumber, 4, 5) = <<0, 0>>

\* C5: detectCard returns false and leaves the card-detected flag false when
\* the poll succeeds with a UID whose length is not 7.
C5_DetectCardRejectsLength ==
    (Returned("detectCard") /\ call.polls[1].ok /\ call.polls[1].len # DesfireUidLength)
    => call.ret = FALSE /\ cardDetected = FALSE

\* a successful poll of a 10-byte UID right after a card had been detected
C5_Witness ==
    /\ Returned("detectCard")
    /\ call.polls[1].ok /\ call.polls[1].len = 10
    /\ call.pre[3] = TRUE
    /\ call.ret = FALSE /\ cardDetected = FALSE

\* C6: in every state reachable by detectCard and getCardUID calls the
\* card-detected flag is true only if the cached UID length is 7.
C6_DetectedImpliesSevenBytes == cardDetected => uidLength = DesfireUidLength

\* C7: selectApplication with a null AID returns the null-parameter status and
\* issues no transceive call, in any session state.
C7_SelectNullAid ==
    (Returned("selectApplication") /\ ~call.args.hasAid)
    => /\ call.ret = DFST_PARAMETER_NULL
       /\ call.trace = <<>>
       /\ call.xfers = <<>>
       /\ session = call.pre

\* a null-AID call made with a card detected and the session authenticated
C7_Witness ==
    /\ Returned("selectApplication") /\ ~call.args.hasAid
    /\ cardDetected /\ authenticated
    /\ call.ret = DFST_PARAMETER_NULL /\ call.trace = <<>>

\* C8: authenticate never completes successfully, so in every reachable state
\* the authenticated flag is false and the session key has not been written.
C8_NeverAuthenticated ==
    /\ authenticated = FALSE
    /\ sessionKey = Zeros(SessionKeySize)
    /\ Returned("authenticate") => call.ret # DFST_SUCCESS

\* the key size the crypto mode requires: DES 8, 3K3DES 16, AES 16
RequiredKeySize(mode) == IF mode = DF_CRYPTO_DES THEN 8 ELSE 16

\* C9: authenticate with a key whose size is not the one the configured crypto
\* mode requires returns ParameterError, makes no transceive call and leaves
\* the session key and the authenticated flag unchanged.
C9_KeySizeChecked ==
    (Returned("authenticate") /\ call.args.hasKey
        /\ call.args.keySize # RequiredKeySize(call.pre[6]))
    => /\ call.ret = DFST_PARAMETER_ERROR
       /\ call.trace = <<>>
       /\ sessionKey = call.pre[4]
       /\ authenticated = call.pre[5]

\* a 16-byte key offered in DES mode to an authenticated session
C9_Witness ==
    /\ Returned("authenticate") /\ call.args.hasKey
    /\ call.args.keySize = 16 /\ call.pre[6] = DF_CRYPTO_DES
    /\ call.pre[5] = TRUE
    /\ call.ret = DFST_PARAMETER_ERROR /\ call.trace = <<>>
    /\ authenticated /\ sessionKey = call.pre[4]

\* C10: getVersion(version) returns true only if the last frame it received
\* carried a Success status word; a last frame with MoreFrames, the third
\* included, makes it return false.
C10_MoreFramesConsumed ==
    (Returned("getVersion") /\ call.args.hasVersion)
    => LET last == call.xfers[Len(call.xfers)]
       IN  /\ call.ret = TRUE =>
                /\ last.called /\ last.rx.ok /\ last.rx.n >= ISO_STATUS_LENGTH
                /\ ConvertStatus(last.rx.sw) = DFST_SUCCESS
           /\ (last.called /\ last.rx.ok /\ last.rx.n >= ISO_STATUS_LENGTH
                    /\ ConvertStatus(last.rx.sw) = DFST_MORE_FRAMES)
                => call.ret = FALSE

\* a run that returned true on a first frame of 7 bytes with status Success
C10_Witness ==
    /\ Returned("getVersion") /\ call.args.hasVersion
    /\ Carries(call.xfers[Len(call.xfers)], 7, ISO_SW_SUCCESS_DESFIRE)
    /\ call.ret = TRUE

\* the transceive calls the call on record made
Transceives == Len(call.trace)

C12_FrameConditions ==
    pc # "idle" =>
        /\ call.op \in {"initialize", "getVersion", "getVersionSimple",
                        "selectApplication"}
            => session = call.pre
        /\ call.op \in {"detectCard", "getCardUID"}
            => <<sessionKey, authenticated, cryptoMode>>
                 = <<call.pre[4], call.pre[5], call.pre[6]>>
        /\ call.op = "authenticate"
            => <<uid, uidLength, cardDetected, cryptoMode>>
                 = <<call.pre[1], call.pre[2], call.pre[3], call.pre[6]>>

\* selectApplication answered with a success by a card that was detected, in
\* a session that was authenticated
C12_Witness ==
    /\ Returned("selectApplication") /\ call.args.hasAid
    /\ call.ret = DFST_SUCCESS
    /\ call.pre[3] = TRUE /\ call.pre[5] = TRUE
    /\ session = call.pre

\* the values of the enumeration DesfireStatus
DesfireStatuses ==
    {DFST_SUCCESS, DFST_MORE_FRAMES, DFST_NO_CHANGES, DFST_OUT_OF_EEPROM,
     DFST_ILLEGAL_COMMAND, DFST_INTEGRITY_ERROR, DFST_PARAMETER_ERROR,
     DFST_NO_SUCH_KEY, DFST_LENGTH_ERROR, DFST_PERMISSION_DENIED,
     DFST_APPLICATION_NOT_FOUND, DFST_APPLICATION_INTEGRITY_ERROR,
     DFST_AUTHENTICATION_ERROR, DFST_BOUNDARY_ERROR,
     DFST_PICC_INTEGRITY_ERROR, DFST_COMMAND_ABORTED,
     DFST_CARD_INTEGRITY_ERROR, DFST_DUPLICATE_ERROR, DFST_EEPROM_ERROR,
     DFST_FILE_NOT_FOUND, DFST_FILE_INTEGRITY_ERROR, DFST_LIBRARY_ERROR,
     DFST_COMMUNICATION_ERROR, DFST_PARAMETER_NULL, DFST_BUFFER_OVERFLOW,
     DFST_ISO_FILE_NOT_FOUND, DFST_ISO_WRONG_LENGTH, DFST_ISO_WRONG_PARAMS,
     DFST_ISO_UNKNOWN_INSTRUCTION, DFST_ISO_SECURITY_STATUS_ERROR,
     DFST_ISO_AUTHENTICATION_BLOCKED, DFST_ISO_DATA_INVALID,
     DFST_ISO_CONDITION_NOT_SATISFIED, DFST_ISO_WRONG_LE,
     DFST_ISO_WRONG_CLA}

\* the status words convertStatus has a case for
MappedStatusWords ==
    {36864, 37120,                                  \* 0x9000 0x9100
     37295, 37294, 37360, 37132, 37134, 37148,      \* 0x91AF AE F0 0C 0E 1C
     37150, 37151, 37184, 37246, 37277, 37280,      \* 0x911E 1F 40 7E 9D A0
     37281, 37310, 37313, 37322, 37325, 37342,      \* 0x91A1 BE C1 CA CD DE
     37358, 37361,                                  \* 0x91EE F1
     27266, 26368, 27270, 27904, 27010, 27011,      \* 0x6A82 6700 6A86 6D00 6982 6983
     27012, 27013, 27648, 28160}                    \* 0x6984 6985 6C00 6E00

\* C13: convertStatus maps every 16-bit status word to a DesfireStatus, every
\* word it has no case for to the library error, and to Success the words
\* 0x9000 and 0x9100 only.
C13_ConvertStatusTotal ==
    Returned("convertStatus") =>
        /\ call.ret \in DesfireStatuses
        /\ call.args.status \notin MappedStatusWords => call.ret = DFST_LIBRARY_ERROR
        /\ call.ret = DFST_SUCCESS <=> call.args.status \in {36864, 37120}

\* 0x91FF, a word of the DESFire page that has no case
C13_Witness ==
    /\ Returned("convertStatus")
    /\ call.args.status = 37375
    /\ call.ret = DFST_LIBRARY_ERROR

\* C14: isSuccess(sw) is true exactly when sw is 0x9000 or 0x9100 or its high
\* byte is 0x61; it is false for every other word, 0x91AF included.
C14_IsSuccessExact ==
    Returned("isSuccess") =>
        call.ret = (\/ call.args.status \in {36864, 37120}
                    \/ call.args.status \in 24832..25087)

C14_Witness ==
    /\ Returned("isSuccess")
    /\ call.args.status = SW_MORE_FRAMES
    /\ call.ret = FALSE

\* the APDU of a command as ISO 7816-4 lays it out in a blank buffer
ExpectedApdu(cmd) ==
    LET body == IF cmd.dataLength > 0
                THEN <<cmd.dataLength>> \o SubSeq(cmd.data, 1, cmd.dataLength)
                ELSE <<>>
        tail == IF cmd.le > 0 THEN <<cmd.le>> ELSE <<>>
    IN  <<cmd.cla, cmd.ins, cmd.p1, cmd.p2>> \o body \o tail

\* C15: for every command with data length and Le in 0..255, buildCommand
\* returns Success, the buffer holds CLA, INS, P1, P2, then Lc and the data
\* (if data length > 0), then Le (if Le > 0), nothing else is written, and
\* the length reported is 4 + (data length > 0 ? 1 + data length : 0)
\* + (Le > 0 ? 1 : 0).
C15_BuildCommandLayout ==
    (Returned("buildCommand") /\ call.args.hasApdu /\ call.args.hasApduLength)
    => LET expected == ExpectedApdu(call.args.cmd)
       IN  /\ call.ret.ret = DFST_SUCCESS
           /\ call.ret.apduLength = Len(expected)
           /\ \A i \in 1..ISO_MAX_APDU_SIZE :
                call.ret.apdu[i] = IF i <= Len(expected) THEN expected[i] ELSE Garbage

\* C16: buildCommand returns ParameterError, the buffer and the length not
\* written, when the data length or Le exceeds 255 or data is absent though
\* the data length is not zero; with an absent buffer or length pointer it
\* returns the null-parameter status.
C16_BuildCommandRejects ==
    Returned("buildCommand") =>
        LET cmd == call.args.cmd
            invalid == \/ cmd.dataLength > 255
                       \/ cmd.le > 255
                       \/ (cmd.dataLength # 0 /\ ~cmd.hasData)
            untouched == /\ call.ret.apdu = BlankApdu
                         /\ call.ret.apduLength = Garbage
        IN  /\ (~call.args.hasApdu \/ ~call.args.hasApduLength)
                => call.ret.ret = DFST_PARAMETER_NULL /\ untouched
            /\ (call.args.hasApdu /\ call.args.hasApduLength /\ invalid)
                => call.ret.ret = DFST_PARAMETER_ERROR /\ untouched
            /\ call.ret.ret = DFST_PARAMETER_ERROR => invalid

\* a command of 255 data bytes offered with no buffer to encode it into
C16_Witness ==
    /\ Returned("buildCommand")
    /\ ~call.args.hasApdu /\ call.args.hasApduLength
    /\ call.args.cmd.dataLength = 255
    /\ call.ret.ret = DFST_PARAMETER_NULL
    /\ call.ret.apdu = BlankApdu

\* C17: parseResponse returns ParameterError for an input shorter than 2
\* bytes; for an input of n bytes, n in 2..255, it returns Success with
\* status = 256 * byte[n-2] + byte[n-1], dataLength = n - 2 and data the first
\* n - 2 input bytes, whatever the status word.
C17_ParseResponseSplits ==
    (Returned("parseResponse") /\ call.args.hasResponse)
    => LET n == call.args.responseLength
           bytes == call.args.response
       IN  IF n < 2
           THEN call.ret.ret = DFST_PARAMETER_ERROR
           ELSE /\ call.ret.ret = DFST_SUCCESS
                /\ call.ret.result.status = 256 * bytes[n - 1] + bytes[n]
                /\ call.ret.result.dataLength = n - 2
                /\ SubSeq(call.ret.result.data, 1, n - 2) = SubSeq(bytes, 1, n - 2)

\* the longest input, ending in the status word 0x1234
C17_Witness ==
    /\ Returned("parseResponse") /\ call.args.hasResponse
    /\ call.args.responseLength = 255
    /\ call.ret.ret = DFST_SUCCESS
    /\ call.ret.result.status = 4660
    /\ call.ret.result.dataLength = 253

\* the round trip recovered the data length and the status word
RoundTripRecovers ==
    /\ call.ret.built.ret = DFST_SUCCESS
    /\ call.ret.parsed.ret = DFST_SUCCESS
    /\ call.ret.parsed.result.dataLength = call.args.cmd.dataLength
    /\ call.ret.parsed.result.status = call.args.sw

\* C18 as stated: for every command with data length d <= 254 and every
\* status word sw, buildCommand followed by parseResponse on the echo (the d
\* data bytes, then the two bytes of sw) succeeds and recovers d and sw.
C18_RoundTrip254 ==
    (Returned("roundTrip") /\ call.args.cmd.dataLength <= 254)
    => RoundTripRecovers

\* C18 as amended: the same for every data length d <= 253, the longest
\* echo parseResponse can be handed being 255 bytes.
C18_RoundTrip253 ==
    (Returned("roundTrip") /\ call.args.cmd.dataLength <= 253)
    => RoundTripRecovers

C18_Witness ==
    /\ Returned("roundTrip")
    /\ call.args.cmd.dataLength = 253 /\ call.args.sw = 4660
    /\ RoundTripRecovers
    /\ Len(call.ret.echo) = 255

C20_InitializeOrder ==
    Returned("initialize") =>
        /\ call.trace = SubSeq(<<"begin", "getFirmwareVersion", "configure">>,
                               1, Len(call.trace))
        /\ Len(call.trace) >= 1
        /\ call.ret = (call.args.begin /\ call.args.firmware # 0 /\ call.args.configure)
        /\ ~call.args.begin => call.trace = <<"begin">>
        /\ (call.args.begin /\ call.args.firmware = 0)
            => call.trace = <<"begin", "getFirmwareVersion">>
        /\ (call.args.begin /\ call.args.firmware # 0) => Len(call.trace) = 3

\* a reader that came up and then reported firmware version 0
C20_Witness ==
    /\ Returned("initialize")
    /\ call.args.begin /\ call.args.firmware = 0
    /\ call.trace = <<"begin", "getFirmwareVersion">>
    /\ call.ret = FALSE

\* C21: each detectCard call polls the reader exactly once; it returns true
\* and sets the card-detected flag when the poll succeeds with a 7-byte UID,
\* and it returns false with the flag false when the poll fails, whatever an
\* earlier call had detected.
C21_DetectCardOnePoll ==
    Returned("detectCard") =>
        /\ call.trace = <<"detectCard">>
        /\ Len(call.polls) = 1
        /\ (call.polls[1].ok /\ call.polls[1].len = DesfireUidLength)
            => call.ret = TRUE /\ cardDetected = TRUE
        /\ ~call.polls[1].ok => call.ret = FALSE /\ cardDetected = FALSE

\* a poll that failed after a card had been detected
C21_Witness ==
    /\ Returned("detectCard")
    /\ ~call.polls[1].ok
    /\ call.pre[3] = TRUE
    /\ call.ret = FALSE /\ cardDetected = FALSE

\* detectCard returned true: the cache holds the 7 bytes the poll reported
DetectedCacheHoldsPoll ==
    (Returned("detectCard") /\ call.ret = TRUE)
    => /\ cardDetected = TRUE
       /\ uidLength = DesfireUidLength
       /\ SubSeq(uid, 1, DesfireUidLength) = PollBytes(call.polls[1])

\* getCardUID, the card-detected flag set: the cache is handed out, the
\* reader is not asked
ServedFromCache ==
    (Returned("getCardUID") /\ call.args.hasUid /\ call.args.hasLen
        /\ call.pre[3] = TRUE)
    => /\ call.ret = TRUE
       /\ call.trace = <<>>
       /\ call.outLen = call.pre[2]
       /\ call.outUid = SubSeq(call.pre[1], 1, call.pre[2])

\* while the flag is set, no call but a detectCard call touches the cache
CacheKeptUntilDetect ==
    (cardDetected /\ call'.op # "detectCard")
    => UNCHANGED <<uid, uidLength, cardDetected>>

\* C22: after detectCard has returned true, and until the next detectCard
\* call, getCardUID with non-null arguments returns true with length 7 and
\* the UID bytes the poll reported, from the cache and without a poll.
C22_CachedUid ==
    /\ [](DetectedCacheHoldsPoll /\ ServedFromCache)
    /\ [][CacheKeptUntilDetect]_vars

\* the 7 bytes 80 81 .. 86 handed out from the cache
C22_Witness ==
    /\ Returned("getCardUID")
    /\ call.pre[3] = TRUE /\ call.pre[2] = DesfireUidLength
    /\ call.ret = TRUE /\ call.trace = <<>>
    /\ call.outLen = 7
    /\ call.outUid = <<128, 129, 130, 131, 132, 133, 134>>

\* C23: getVersion() issues exactly one transceive, carrying the command code
\* 0x60 with no payload, and returns true exactly when the response is
\* classified as Success or MoreFrames; false for a link failure or any other
\* status.
C23_GetVersionSimple ==
    (pc # "idle" /\ call.op = "getVersionSimple")
    => /\ call.trace = <<"transceive">>
       /\ call.xfers[1].apdu = <<144, 0, 0, 0, 1, 96>>
       /\ pc = "returned" =>
            call.ret = (/\ call.xfers[1].rx.ok
                        /\ call.xfers[1].rx.n >= ISO_STATUS_LENGTH
                        /\ ConvertStatus(call.xfers[1].rx.sw)
                             \in {DFST_SUCCESS, DFST_MORE_FRAMES})

\* the payload bytes round i of getVersion(version) needs
MinimumPayload(i) == IF i = 3 THEN 10 ELSE 7

\* C24: if the first or the second frame of getVersion(version) carries fewer
\* than 7 payload bytes, or the third fewer than 10, the call returns false,
\* whatever the frame's status, and the caller's record is not filled.
C24_ShortFrameFails ==
    (Returned("getVersion") /\ call.args.hasVersion)
    => \A i \in 1..Len(call.xfers) :
        (/\ call.xfers[i].called /\ call.xfers[i].rx.ok
         /\ call.xfers[i].rx.n - ISO_STATUS_LENGTH < MinimumPayload(i))
        => /\ call.ret = FALSE
           /\ i = 1 => call.version = call.version0

\* a first frame of 6 payload bytes with the status word 0x9100
C24_Witness ==
    /\ Returned("getVersion") /\ call.args.hasVersion
    /\ Carries(call.xfers[1], 6, ISO_SW_SUCCESS_DESFIRE)
    /\ call.ret = FALSE
    /\ call.version0 = BlankVersion(238)
    /\ call.version = call.version0

\* round k of the call on record was answered with status word sw and with
\* the payload its round needs
AnsweredInFull(k, sw) ==
    /\ call.xfers[k].called /\ call.xfers[k].rx.ok
    /\ call.xfers[k].rx.n - ISO_STATUS_LENGTH >= MinimumPayload(k)
    /\ call.xfers[k].rx.n - ISO_STATUS_LENGTH <= ResponseCap
    /\ call.xfers[k].rx.sw = sw

\* C25: getVersion(version) issues round k + 1 (k = 1, 2) if and only if
\* round k's status was MoreFrames and its payload long enough; every round
\* after the first is the command 0xAF with no payload; when round 1 or
\* round 2 answers Success it returns true without a further transceive.
C25_RoundsFollowMoreFrames ==
    (pc # "idle" /\ call.op = "getVersion" /\ call.args.hasVersion)
    => /\ \A k \in 1..2 :
            Len(call.xfers) >= k =>
                /\ Len(call.xfers) >= k + 1 <=> AnsweredInFull(k, SW_MORE_FRAMES)
                /\ AnsweredInFull(k, ISO_SW_SUCCESS_DESFIRE)
                    => Len(call.xfers) = k /\ call.ret = TRUE
       /\ \A i \in 2..Len(call.xfers) :
            call.xfers[i].apdu = <<144, 0, 0, 0, 1, 175>>

\* the payload length of the transmit call on record
PayloadLength == IF call.args.hasData THEN call.args.dataLen ELSE 0

\* C26: transmit with a non-null payload longer than 254 bytes returns
\* BufferOverflow without calling transceive; with a payload of at most 254
\* bytes it makes exactly one transceive call.
C26_PayloadLimit ==
    (pc # "idle" /\ call.op = "transmit" /\ call.args.hasResponse)
    => IF PayloadLength > 254
       THEN call.ret = DFST_BUFFER_OVERFLOW /\ call.trace = <<>>
       ELSE call.trace = <<"transceive">>

\* 255 payload bytes offered
C26_Witness ==
    /\ Returned("transmit") /\ call.args.hasResponse
    /\ call.args.hasData /\ call.args.dataLen = 255
    /\ call.ret = DFST_BUFFER_OVERFLOW
    /\ call.trace = <<>>

\* C27: transmit returns CommunicationError when transceive reports failure
\* and LengthError when it succeeds with fewer than 2 bytes; in neither case
\* is a status word read from the response.
C27_LinkAndLengthErrors ==
    (pc # "idle" /\ call.op = "transmit" /\ call.xfers[1].called)
    => /\ ~call.xfers[1].rx.ok
            => /\ call.ret = DFST_COMMUNICATION_ERROR
               /\ ~call.xfers[1].read /\ ~call.xfers[1].wrote
       /\ (call.xfers[1].rx.ok /\ call.xfers[1].rx.n < 2)
            => /\ call.ret = DFST_LENGTH_ERROR
               /\ ~call.xfers[1].read /\ ~call.xfers[1].wrote

\* a response of one byte
C27_Witness ==
    /\ Returned("transmit")
    /\ call.xfers[1].called /\ call.xfers[1].rx.ok /\ call.xfers[1].rx.n = 1
    /\ call.ret = DFST_LENGTH_ERROR
    /\ ~call.xfers[1].read

C29_CopyWithinCapacity ==
    pc # "idle" =>
        \A i \in 1..Len(call.xfers) :
            /\ call.xfers[i].copied <= ResponseCap
            /\ (/\ call.xfers[i].called /\ call.xfers[i].rx.ok
                /\ call.xfers[i].rx.n - ISO_STATUS_LENGTH > ResponseCap)
                => /\ call.xfers[i].status = DFST_BUFFER_OVERFLOW
                   /\ ~call.xfers[i].wrote

\* C30: getCardUID never writes more than 7 bytes into the caller's UID
\* buffer and never reports a UID length greater than 7.
C30_UidAtMostSeven ==
    Returned("getCardUID") =>
        /\ Len(call.outUid) <= DesfireUidLength
        /\ call.outLen <= DesfireUidLength

\* C31: for every payload length n that transmit accepts, 0..254, the length
\* handed to the reader's transceive equals the length n + 6 of the APDU
\* built; it is never reduced modulo 256.
C31_TxLengthIsApduLength ==
    (pc # "idle" /\ call.op = "transmit" /\ call.xfers[1].called)
    => /\ call.xfers[1].txLength = Len(call.xfers[1].apdu)
       /\ call.xfers[1].txLength = PayloadLength + 6

C33_PredicatesAgree ==
    Returned("statusPredicates") =>
        /\ call.ret.isSuccess
            => call.ret.converted \in {DFST_SUCCESS, DFST_MORE_FRAMES}
        /\ call.ret.converted = DFST_SUCCESS => call.ret.isSuccess

\* C33 as amended: isSuccess(sw) only if convertStatus(sw) is Success or
\* MoreFrames or the high byte of sw is 0x61 (bytes remaining), and
\* convertStatus(sw) = Success implies isSuccess(sw).
C33_PredicatesAgreeBut61 ==
    Returned("statusPredicates") =>
        /\ call.ret.isSuccess
            => \/ call.ret.converted \in {DFST_SUCCESS, DFST_MORE_FRAMES}
               \/ call.args.status \div 256 = 97
        /\ call.ret.converted = DFST_SUCCESS => call.ret.isSuccess

\* 0x6110: a success for isSuccess, a library error for convertStatus
C33_Witness ==
    /\ Returned("statusPredicates")
    /\ call.args.status = 24848
    /\ call.ret.isSuccess
    /\ call.ret.converted = DFST_LIBRARY_ERROR

\* C34: once the authenticated flag is set no later operation clears it, and
\* none erases the session key: the key changes only where an authenticate
\* call succeeds again.
C34_AuthenticatedForGood ==
    [][authenticated =>
        /\ authenticated'
        /\ \/ sessionKey' = sessionKey
           \/ (call'.op = "authenticate" /\ call'.ret = DFST_SUCCESS)]_vars

\* an authenticate call that failed at the card in an authenticated session
C34_Witness ==
    /\ Returned("authenticate")
    /\ call.trace = <<"transceive">>
    /\ call.ret # DFST_SUCCESS
    /\ call.pre[5] = TRUE
    /\ authenticated
    /\ sessionKey = call.pre[4] /\ sessionKey # Zeros(SessionKeySize)

\* C35: getVersion(nullptr) and getCardUID with a null uid or a null length
\* return false, authenticate with a null key returns the null-parameter
\* status, each without a reader call and with the session unchanged.
C35_NullPointersFailEarly ==
    /\ (Returned("getVersion") /\ ~call.args.hasVersion)
        => call.ret = FALSE /\ call.trace = <<>> /\ session = call.pre
    /\ (Returned("getCardUID") /\ (~call.args.hasUid \/ ~call.args.hasLen))
        => call.ret = FALSE /\ call.trace = <<>> /\ session = call.pre
    /\ (Returned("authenticate") /\ ~call.args.hasKey)
        => call.ret = DFST_PARAMETER_NULL /\ call.trace = <<>> /\ session = call.pre

\* a null key of a size DES does not take, offered with a card detected
C35_Witness ==
    /\ Returned("authenticate") /\ ~call.args.hasKey
    /\ call.args.keySize = 7
    /\ call.pre[3] = TRUE
    /\ call.ret = DFST_PARAMETER_NULL /\ call.trace = <<>>

\* detectCard returned false: the card-detected flag is down
FailedDetectClearsFlag ==
    (Returned("detectCard") /\ call.ret = FALSE) => cardDetected = FALSE

\* getCardUID, the flag down: one poll, whose result and UID the call returns
PolledAfresh ==
    (Returned("getCardUID") /\ call.args.hasUid /\ call.args.hasLen
        /\ call.pre[3] = FALSE)
    => /\ call.trace = <<"detectCard">>
       /\ Len(call.polls) = 1
       /\ call.ret = call.polls[1].ok
       /\ call.ret = TRUE =>
            /\ call.outUid = PollBytes(call.polls[1])
            /\ call.outLen = call.polls[1].len
            /\ cardDetected = TRUE

\* the flag goes up in detectCard and getCardUID calls only
FlagRaisedByPollsOnly ==
    (~cardDetected /\ cardDetected') => call'.op \in {"detectCard", "getCardUID"}

====
